---------------------------- MODULE Spec2Model ----------------------------
(***************************************************************************)
(* A model of gntools/definitions.py: the GEONIS definition table with its *)
(* table/field name facades, the memoized GEONIS language, the Relation    *)
(* record and the RelationTable loader.                                    *)
(*                                                                         *)
(* Text values that the code converts (upper(), strip(), lower()) are      *)
(* sequences of one-character strings, so that the conversions are         *)
(* computed character by character.  Names that the code only compares or  *)
(* looks up (definition keys, object names, language codes) are strings.   *)
(***************************************************************************)
EXTENDS Integers, Sequences, FiniteSets, TLC

VARIABLES
    \* ---- DefinitionTable / EleDefinitions and the facades
    defInput,     \* constructor arguments and the database table they meet
    defPc,        \* "new" | "ready" (instance returned) | "failed" (raised)
    defErr,       \* exception raised by the constructor, "none" if none
    defTable,     \* the instance's mapping (name -> value)
    defSolution,  \* self._solution
    defCall,      \* the last call made on the instance
    defResult,    \* what that call returned
    \* ---- the memoized GEONIS language (module level) and its provider
    _gn_lang,     \* module-level _gn_lang
    provider,     \* what _i18n.get_language() answers when asked now
    langCalls,    \* number of calls of _i18n.get_language() so far
    descReads,    \* number of reads of fields.description so far
    descResult,   \* result of the last read of fields.description
    descFirst,    \* result of the first read of fields.description
    descSeen,     \* the provider's answer at the time of the last read
    \* ---- Relation
    recArgs,      \* positional arguments given to Relation(...)
    rec,          \* the Relation tuple built from them
    recBool,      \* bool(rec) as last evaluated: "unset" | "True" | "False"
    \* ---- RelationTable
    relInput,     \* constructor arguments (workspace, relation_type, reverse)
    relPc,        \* position inside RelationTable.__init__
    relErr,       \* exception raised by the constructor, "none" if none
    relPath,      \* TRUE once the table path has been built
    relFilter,    \* TRUE once the where clause has been built
    relFields,    \* the columns the cursor reads: key column, then 7 fields
    relTable,     \* the instance's mapping (key -> Relation)
    relRows,      \* the database rows handed to _process_row so far
    relWarnings,  \* the RelationWarning diagnostics raised so far
    relLast       \* outcome of the last _process_row call

defVars  == <<defInput, defPc, defErr, defTable, defSolution, defCall, defResult>>
langVars == <<_gn_lang, provider, langCalls, descReads, descResult, descFirst, descSeen>>
recVars  == <<recArgs, rec, recBool>>
relVars  == <<relInput, relPc, relErr, relPath, relFilter, relFields, relTable,
              relRows, relWarnings, relLast>>
vars     == <<defVars, langVars, recVars, relVars>>

(***************************************************************************)
(* Text: Python's str.upper(), str.lower() and str.strip()                 *)
(***************************************************************************)
\* Python's None among text values: a reserved one-element sequence whose
\* element is not a character.
None == <<"<None>">>

LowerCase == <<"a","b","c","d","e","f","g","h","i","j","k","l","m",
               "n","o","p","q","r","s","t","u","v","w","x","y","z">>
UpperCase == <<"A","B","C","D","E","F","G","H","I","J","K","L","M",
               "N","O","P","Q","R","S","T","U","V","W","X","Y","Z">>
Whitespace == {" ", "\t", "\n"}

UpperChar(c) ==
    IF \E i \in DOMAIN LowerCase : LowerCase[i] = c
    THEN UpperCase[CHOOSE i \in DOMAIN LowerCase : LowerCase[i] = c]
    ELSE c

LowerChar(c) ==
    IF \E i \in DOMAIN UpperCase : UpperCase[i] = c
    THEN LowerCase[CHOOSE i \in DOMAIN UpperCase : UpperCase[i] = c]
    ELSE c

upper(s) == [i \in DOMAIN s |-> UpperChar(s[i])]

lower(s) == [i \in DOMAIN s |-> LowerChar(s[i])]

RECURSIVE lstrip(_)
lstrip(s) ==
    IF s # <<>> /\ Head(s) \in Whitespace THEN lstrip(Tail(s)) ELSE s

RECURSIVE rstrip(_)
rstrip(s) ==
    IF s # <<>> /\ s[Len(s)] \in Whitespace
    THEN rstrip(SubSeq(s, 1, Len(s) - 1))
    ELSE s

strip(s) == lstrip(rstrip(s))

\* Python truth value of a text value or None: None and '' are false.
Truthy(v) == v # None /\ v # <<>>

(***************************************************************************)
(* DefinitionTable, EleDefinitions                                         *)
(***************************************************************************)
NoTable == [k \in {} |-> ""]

NoCall == [op |-> "none", key |-> "", default |-> ""]

\* gntools.common.const.GNMEDIA_ELECTRIC
GNMEDIA_ELECTRIC == <<"E","L","E">>

DefKeys == {"tablename_cable", "tablename_clamp", "tablename_sec_cable_dense",
            "fieldname_ds_trafo_name_number"}

DefValues == {"custom_kabel", "eles_spannung", "custom_name"}

\* Every mapping the key/value load of a definition table can produce,
\* the empty one included.
DefContents == UNION {[S -> DefValues] : S \in SUBSET DefKeys}

GetKeys == DefKeys \cup {"tablename_pipe"}

GetDefaults == {"ele_kabel", "eles_spannung"}

DefInputs ==
    [cls       : {"DefinitionTable", "EleDefinitions"},
     workspace : {"Workspace", "str"},
     solution  : {GNMEDIA_ELECTRIC, <<"G","a","s">>},
     readable  : BOOLEAN,
     content   : DefContents]

DefInit ==
    /\ defInput \in {i \in DefInputs :
                        i.cls = "EleDefinitions" => i.solution = GNMEDIA_ELECTRIC}
    /\ defPc = "new"
    /\ defErr = "none"
    /\ defTable = NoTable
    /\ defSolution = None
    /\ defCall = NoCall
    /\ defResult = ""

DefIdle ==
    /\ defInput = [cls |-> "DefinitionTable", workspace |-> "Workspace",
                   solution |-> GNMEDIA_ELECTRIC, readable |-> TRUE,
                   content |-> NoTable]
    /\ defPc = "idle"
    /\ defErr = "none"
    /\ defTable = NoTable
    /\ defSolution = None
    /\ defCall = NoCall
    /\ defResult = ""

\* Variant of DefinitionTable_raises without the test for an empty table.
DefinitionTable_raises_no_empty_test(i) ==
    IF i.workspace # "Workspace" THEN "ValueError"
    ELSE IF ~i.readable THEN "RuntimeError"
    ELSE "none"

\* The exception DefinitionTable.__init__ raises on the given input, "none"
\* when it returns.
DefinitionTable_raises(i) ==
    IF i.workspace # "Workspace" THEN "ValueError"
    ELSE IF ~i.readable THEN "RuntimeError"
    ELSE IF DOMAIN i.content = {} THEN "ValueError"
    ELSE "none"

\* DefinitionTable.__init__ (EleDefinitions.__init__ calls it with the
\* electric solution).
DefinitionTable_init ==
    /\ defPc = "new"
    /\ LET err == DefinitionTable_raises(defInput) IN
         /\ defErr' = err
         /\ IF err = "none"
            THEN /\ defPc' = "ready"
                 /\ defTable' = defInput.content
                 /\ defSolution' = lower(defInput.solution)
            ELSE /\ defPc' = "failed"
                 /\ UNCHANGED <<defTable, defSolution>>
    /\ UNCHANGED <<defInput, defCall, defResult>>

\* Variant of get that never looks the key up and answers the default.
get_default_only(table, key, default) == default

\* dict.get as DefinitionTable inherits it.
get(table, key, default) ==
    IF key \in DOMAIN table THEN table[key] ELSE default

\* Variant of cable that reads the key of the neighbouring property.
cable_clamp_key(def) == get(def, "tablename_clamp", "ele_kabel")

\* _EleTableNames properties
cable(def) == get(def, "tablename_cable", "ele_kabel")

clamp(def) == get(def, "tablename_clamp", "ele_ds_klemme")

sec_cable_voltage(def) == get(def, "tablename_sec_cable_dense", "eles_spannung")

\* _EleFieldNames properties
transformer_number(def) == get(def, "fieldname_ds_trafo_name_number", "name_nummer")

\* Variant of name_number that takes any override of the voltage table for a
\* renamed table, without comparing its value.
name_number_any_override(def) ==
    IF "tablename_sec_cable_dense" \notin DOMAIN def THEN "name_nummer" ELSE "name_number"

name_number(def) ==
    IF sec_cable_voltage(def) = "eles_spannung" THEN "name_nummer" ELSE "name_number"

\* A call of get(key, default) on the instance.
Get ==
    /\ defPc = "ready"
    /\ \E k \in GetKeys, d \in GetDefaults :
         /\ defCall' = [op |-> "get", key |-> k, default |-> d]
         /\ defResult' = get(defTable, k, d)
    /\ UNCHANGED <<defInput, defPc, defErr, defTable, defSolution>>

\* A read of a property of EleDefinitions.tables.
ReadTables ==
    /\ defPc = "ready"
    /\ defInput.cls = "EleDefinitions"
    /\ \E p \in {"cable", "clamp", "sec_cable_voltage"} :
         /\ defCall' = [op |-> "tables", key |-> p, default |-> ""]
         /\ defResult' = CASE p = "cable" -> cable(defTable)
                           [] p = "clamp" -> clamp(defTable)
                           [] p = "sec_cable_voltage" -> sec_cable_voltage(defTable)
    /\ UNCHANGED <<defInput, defPc, defErr, defTable, defSolution>>

\* A read of a definition-backed property of EleDefinitions.fields.
ReadFields ==
    /\ defPc = "ready"
    /\ defInput.cls = "EleDefinitions"
    /\ \E p \in {"transformer_number", "name_number"} :
         /\ defCall' = [op |-> "fields", key |-> p, default |-> ""]
         /\ defResult' = CASE p = "transformer_number" -> transformer_number(defTable)
                           [] p = "name_number" -> name_number(defTable)
    /\ UNCHANGED <<defInput, defPc, defErr, defTable, defSolution>>

(***************************************************************************)
(* The memoized GEONIS language and _EleFieldNames.description             *)
(***************************************************************************)
MaxReads == 3

\* Python's None among language codes.
NoLang == "<None>"

\* gntools.common.i18n language codes
GN_LANG_CUSTOM == "custom"
GN_LANG_DE == "de"
GN_LANG_EN == "en"
GN_LANG_FR == "fr"
GN_LANG_IT == "it"

\* gntools.common.const description field names
GNFIELD_DESC_CUSTOM == "description_custom"
GNFIELD_DESC_DE == "description_de"
GNFIELD_DESC_EN == "description_en"
GNFIELD_DESC_FR == "description_fr"
GNFIELD_DESC_IT == "description_it"

\* What _i18n.get_language() can answer: one of the five languages, a code
\* outside the mapping, or nothing determined (None, '').
LangAnswers == {GN_LANG_CUSTOM, GN_LANG_DE, GN_LANG_EN, GN_LANG_FR, GN_LANG_IT,
                "xx", "", NoLang}

\* Python truth value of a language code.
LangTruthy(l) == l # NoLang /\ l # ""

\* Variant of DescField whose default is the custom field name.
DescField_default_custom(l) ==
    CASE l = GN_LANG_DE     -> GNFIELD_DESC_DE
      [] l = GN_LANG_EN     -> GNFIELD_DESC_EN
      [] l = GN_LANG_FR     -> GNFIELD_DESC_FR
      [] l = GN_LANG_IT     -> GNFIELD_DESC_IT
      [] OTHER              -> GNFIELD_DESC_CUSTOM

\* The dictionary lookup of description(), with its default.
DescField(l) ==
    CASE l = GN_LANG_CUSTOM -> GNFIELD_DESC_CUSTOM
      [] l = GN_LANG_DE     -> GNFIELD_DESC_DE
      [] l = GN_LANG_EN     -> GNFIELD_DESC_EN
      [] l = GN_LANG_FR     -> GNFIELD_DESC_FR
      [] l = GN_LANG_IT     -> GNFIELD_DESC_IT
      [] OTHER              -> GNFIELD_DESC_DE

\* Variant of AsksProvider that asks on every read.
AsksProvider_always(l) == TRUE

\* `_gn_lang or _i18n.get_language()`: the provider is called only when the
\* stored code is false.
AsksProvider(l) == ~LangTruthy(l)

LangInit ==
    /\ _gn_lang = NoLang
    /\ provider \in LangAnswers
    /\ langCalls = 0
    /\ descReads = 0
    /\ descResult = ""
    /\ descFirst = ""
    /\ descSeen = NoLang

LangIdle ==
    /\ _gn_lang = NoLang
    /\ provider = NoLang
    /\ langCalls = 0
    /\ descReads = 0
    /\ descResult = ""
    /\ descFirst = ""
    /\ descSeen = NoLang

\* A read of _EleFieldNames.description.
description ==
    /\ descReads < MaxReads
    /\ LET asks == AsksProvider(_gn_lang)
           lang == IF asks THEN provider ELSE _gn_lang
       IN  /\ _gn_lang' = lang
           /\ langCalls' = IF asks THEN langCalls + 1 ELSE langCalls
           /\ descResult' = DescField(lang)
           /\ descFirst' = IF descReads = 0 THEN DescField(lang) ELSE descFirst
    /\ descReads' = descReads + 1
    /\ descSeen' = provider
    /\ UNCHANGED provider

\* The environment changes what the language provider would answer.
SetLanguage ==
    /\ \E a \in LangAnswers \ {provider} : provider' = a
    /\ UNCHANGED <<_gn_lang, langCalls, descReads, descResult, descFirst, descSeen>>

(***************************************************************************)
(* Relation                                                                *)
(***************************************************************************)
\* Number of fields of a Relation: co_argcount of __new__ minus cls.
RelationFields == 7

\* Values a Relation field is given: None, '', a name.
FieldValues == {None, <<>>, <<"A">>}

\* Positional argument lists of Relation(...): 0 to 7 values.
RelationArgs == UNION {[1..n -> FieldValues] : n \in 0..RelationFields}

\* Relation._fix_args: the arguments given, None for those left out.
_fix_args(args) ==
    [i \in 1..RelationFields |-> IF i <= Len(args) THEN args[i] ELSE None]

\* Relation.__new__
Relation(args) == _fix_args(args)

\* Variant of any_ that only tells None from the other values.
any_not_None(t) == \E i \in DOMAIN t : t[i] # None

\* Python's any() over a tuple of text values.
any_(t) == \E i \in DOMAIN t : Truthy(t[i])

\* Relation.__nonzero__
__nonzero__(r) == any_(r)

\* Relation properties
target_table(r) == r[1]

relate_table(r) == r[2]

source_field(r) == r[3]

target_field(r) == r[4]

relate_source(r) == r[5]

relate_target(r) == r[6]

relate_type(r) == r[7]

RecInit ==
    /\ recArgs \in RelationArgs
    /\ rec = <<>>
    /\ recBool = "unset"

RecIdle ==
    /\ recArgs = <<>>
    /\ rec = <<>>
    /\ recBool = "idle"

\* rec = Relation(*recArgs)
NewRelation ==
    /\ rec = <<>>
    /\ recBool = "unset"
    /\ rec' = Relation(recArgs)
    /\ UNCHANGED <<recArgs, recBool>>

\* bool(rec)
BoolRelation ==
    /\ rec # <<>>
    /\ recBool = "unset"
    /\ recBool' = IF __nonzero__(rec) THEN "True" ELSE "False"
    /\ UNCHANGED <<recArgs, rec>>

(***************************************************************************)
(* RelationTable                                                           *)
(***************************************************************************)
MaxRows == 2

\* gntools.common.const relationship type codes
GNRELTYPE_AGGREGRATE == <<"a","g","g","r","e","g","a","t","e">>
GNRELTYPE_COMPOSITE == <<"c","o","m","p","o","s","i","t","e">>
GNRELTYPE_DATALINK == <<"d","a","t","a","l","i","n","k">>
GNRELTYPE_ENTITY == <<"e","n","t","i","t","y">>
GNRELTYPE_LABEL == <<"l","a","b","e","l">>
GNRELTYPE_PLAN == <<"p","l","a","n">>
GNRELTYPE_RELATE == <<"r","e","l","a","t","e">>
GNRELTYPE_SHAPEGROUP == <<"s","h","a","p","e","g","r","o","u","p">>

\* gntools.common.const column names of the relationship definition table
GNFIELD_REL_TABLE_SRC == "table_src"
GNFIELD_REL_TABLE_DST == "table_dst"
GNFIELD_REL_TABLE_REL == "table_rel"
GNFIELD_REL_KEYFIELD_SRC == "keyfield_src"
GNFIELD_REL_KEYFIELD_DST == "keyfield_dst"
GNFIELD_REL_RELFIELD_SRC == "relfield_src"
GNFIELD_REL_RELFIELD_DST == "relfield_dst"
GNFIELD_REL_TYPE == "rel_type"

\* Variant of rel_types that leaves out the last code.
rel_types_without_shapegroup ==
    {GNRELTYPE_AGGREGRATE, GNRELTYPE_COMPOSITE, GNRELTYPE_DATALINK, GNRELTYPE_ENTITY,
     GNRELTYPE_LABEL, GNRELTYPE_PLAN, GNRELTYPE_RELATE}

\* rel_types of RelationTable.__init__
rel_types ==
    {GNRELTYPE_AGGREGRATE, GNRELTYPE_COMPOSITE, GNRELTYPE_DATALINK, GNRELTYPE_ENTITY,
     GNRELTYPE_LABEL, GNRELTYPE_PLAN, GNRELTYPE_RELATE, GNRELTYPE_SHAPEGROUP}

\* relation_type arguments: the known codes and some that are none of them.
RelTypeInputs ==
    {GNRELTYPE_AGGREGRATE, GNRELTYPE_COMPOSITE, GNRELTYPE_DATALINK, GNRELTYPE_ENTITY,
     GNRELTYPE_LABEL, GNRELTYPE_PLAN, GNRELTYPE_RELATE, GNRELTYPE_SHAPEGROUP,
     None, <<>>, <<"R","E","L","A","T","E">>, <<"r","e","l">>}

RelInputs ==
    [workspace     : {"Workspace", "str"},
     relation_type : RelTypeInputs,
     reverse       : BOOLEAN]

\* Source and destination table names of the rows the relationship table
\* holds: plain, differing in case and blanks only, null and blank.
RelTablePairs ==
    {<<<<"A">>, <<"B">>>>,
     <<<<" ","a">>, <<"b"," ">>>>,
     <<<<"A">>, <<"C">>>>,
     <<<<"C">>, <<"B">>>>,
     <<None, <<"B">>>>,
     <<<<" ">>, <<"C">>>>,
     <<<<"A">>, None>>,
     <<<<"C">>, <<"\t">>>>}

\* Key and relation fields of a row: those of an n:m relation (relation
\* table set) and those of any other relation (relation table null).
RelFieldSets ==
    {[table_rel |-> <<"R">>, keyfield_src |-> <<"X">>, keyfield_dst |-> <<"Y">>,
      relfield_src |-> <<"P">>, relfield_dst |-> <<"Q">>],
     [table_rel |-> None, keyfield_src |-> <<"x"," ">>, keyfield_dst |-> <<" ","y">>,
      relfield_src |-> None, relfield_dst |-> None]}

\* The rows of the relationship table that pass the filter on the type t.
RelDbRows(t) ==
    {[table_src |-> p[1], table_dst |-> p[2], table_rel |-> f.table_rel,
      keyfield_src |-> f.keyfield_src, keyfield_dst |-> f.keyfield_dst,
      relfield_src |-> f.relfield_src, relfield_dst |-> f.relfield_dst,
      rel_type |-> t] : p \in RelTablePairs, f \in RelFieldSets}

RelInit ==
    /\ relInput \in RelInputs
    /\ relPc = "new"
    /\ relErr = "none"
    /\ relPath = FALSE
    /\ relFilter = FALSE
    /\ relFields = <<>>
    /\ relTable = NoTable
    /\ relRows = <<>>
    /\ relWarnings = <<>>
    /\ relLast = "none"

RelIdle ==
    /\ relInput = [workspace |-> "Workspace", relation_type |-> None, reverse |-> FALSE]
    /\ relPc = "idle"
    /\ relErr = "none"
    /\ relPath = FALSE
    /\ relFilter = FALSE
    /\ relFields = <<>>
    /\ relTable = NoTable
    /\ relRows = <<>>
    /\ relWarnings = <<>>
    /\ relLast = "none"

\* The two pass_if checks of RelationTable.__init__.
Validate ==
    /\ relPc = "new"
    /\ IF relInput.workspace = "Workspace" /\ relInput.relation_type \in rel_types
       THEN /\ relPc' = "validated"
            /\ relErr' = "none"
       ELSE /\ relPc' = "failed"
            /\ relErr' = "ValueError"
    /\ UNCHANGED <<relInput, relPath, relFilter, relFields, relTable, relRows,
                   relWarnings, relLast>>

\* table_path = str(workspace.make_path(GNTABLE_RELATION_DEF))
MakePath ==
    /\ relPc = "validated"
    /\ relPc' = "path"
    /\ relPath' = TRUE
    /\ UNCHANGED <<relInput, relErr, relFilter, relFields, relTable, relRows,
                   relWarnings, relLast>>

\* type_filter = Where(GNFIELD_REL_TYPE).Equals(relation_type)
MakeFilter ==
    /\ relPc = "path"
    /\ relPc' = "filter"
    /\ relFilter' = TRUE
    /\ UNCHANGED <<relInput, relErr, relPath, relFields, relTable, relRows,
                   relWarnings, relLast>>

\* Variant of cursor_fields that swaps the tables and the key fields on
\* reverse, but not the relation fields.
cursor_fields_rel_not_swapped(reverse) ==
    IF reverse
    THEN <<GNFIELD_REL_TABLE_DST, GNFIELD_REL_TABLE_SRC, GNFIELD_REL_TABLE_REL,
           GNFIELD_REL_KEYFIELD_DST, GNFIELD_REL_KEYFIELD_SRC,
           GNFIELD_REL_RELFIELD_SRC, GNFIELD_REL_RELFIELD_DST, GNFIELD_REL_TYPE>>
    ELSE <<GNFIELD_REL_TABLE_SRC, GNFIELD_REL_TABLE_DST, GNFIELD_REL_TABLE_REL,
           GNFIELD_REL_KEYFIELD_SRC, GNFIELD_REL_KEYFIELD_DST,
           GNFIELD_REL_RELFIELD_SRC, GNFIELD_REL_RELFIELD_DST, GNFIELD_REL_TYPE>>

\* The key column (src_table) followed by the tuple `fields`, as
\* RelationTable.__init__ hands them to the lookup.
cursor_fields(reverse) ==
    LET src_table == IF reverse THEN GNFIELD_REL_TABLE_DST ELSE GNFIELD_REL_TABLE_SRC
        dst_table == IF reverse THEN GNFIELD_REL_TABLE_SRC ELSE GNFIELD_REL_TABLE_DST
        src_field == IF reverse THEN GNFIELD_REL_KEYFIELD_DST ELSE GNFIELD_REL_KEYFIELD_SRC
        dst_field == IF reverse THEN GNFIELD_REL_KEYFIELD_SRC ELSE GNFIELD_REL_KEYFIELD_DST
        src_rel   == IF reverse THEN GNFIELD_REL_RELFIELD_DST ELSE GNFIELD_REL_RELFIELD_SRC
        dst_rel   == IF reverse THEN GNFIELD_REL_RELFIELD_SRC ELSE GNFIELD_REL_RELFIELD_DST
    IN  <<src_table, dst_table, GNFIELD_REL_TABLE_REL, src_field, dst_field,
          src_rel, dst_rel, GNFIELD_REL_TYPE>>

\* The field names are chosen and the lookup is started on them.
SelectFields ==
    /\ relPc = "filter"
    /\ relPc' = "load"
    /\ relFields' = cursor_fields(relInput.reverse)
    /\ UNCHANGED <<relInput, relErr, relPath, relFilter, relTable, relRows,
                   relWarnings, relLast>>

\* The row the cursor yields for a database row: its columns in the order
\* of the field names.
cursor_row(dbrow, fields) == [i \in DOMAIN fields |-> dbrow[fields[i]]]

\* Variant of format that trims text without uppercasing it.
format_strip_only(v) == IF v # None THEN strip(v) ELSE v

\* v.upper().strip() for text, v itself for None.
format(v) == IF v # None THEN strip(upper(v)) ELSE v

\* Variant of _process_row that stores the row of a key already present.
_process_row_last_wins(self, row) ==
    LET formatted == [i \in DOMAIN row |-> format(row[i])]
        key == formatted[1]
        values == Relation(SubSeq(formatted, 2, Len(formatted)))
    IN  IF ~Truthy(key)
        THEN [table |-> self, warnings |-> <<>>, outcome |-> "skipped"]
        ELSE IF key \in DOMAIN self
        THEN [table |-> [k \in DOMAIN self |-> IF k = key THEN values ELSE self[k]],
              warnings |-> <<[key |-> upper(key), type |-> relate_type(values)]>>,
              outcome |-> "duplicate"]
        ELSE [table |-> [k \in DOMAIN self \cup {key} |->
                            IF k = key THEN values ELSE self[k]],
              warnings |-> <<>>, outcome |-> "inserted"]

\* Variant of _process_row that tests the key for None only.
_process_row_blank_key(self, row) ==
    LET formatted == [i \in DOMAIN row |-> format(row[i])]
        key == formatted[1]
        values == Relation(SubSeq(formatted, 2, Len(formatted)))
    IN  IF key = None
        THEN [table |-> self, warnings |-> <<>>, outcome |-> "skipped"]
        ELSE IF key \in DOMAIN self
        THEN [table |-> self,
              warnings |-> <<[key |-> upper(key), type |-> relate_type(values)]>>,
              outcome |-> "duplicate"]
        ELSE [table |-> [k \in DOMAIN self \cup {key} |->
                            IF k = key THEN values ELSE self[k]],
              warnings |-> <<>>, outcome |-> "inserted"]

\* RelationTable._process_row: the table after the row, the warnings raised
\* and which of its three exits was taken.
_process_row(self, row) ==
    LET formatted == [i \in DOMAIN row |-> format(row[i])]
        key == formatted[1]
        values == Relation(SubSeq(formatted, 2, Len(formatted)))
    IN  IF ~Truthy(key)
        THEN [table |-> self, warnings |-> <<>>, outcome |-> "skipped"]
        ELSE IF key \in DOMAIN self
        THEN [table |-> self,
              warnings |-> <<[key |-> upper(key), type |-> relate_type(values)]>>,
              outcome |-> "duplicate"]
        ELSE [table |-> [k \in DOMAIN self \cup {key} |->
                            IF k = key THEN values ELSE self[k]],
              warnings |-> <<>>, outcome |-> "inserted"]

\* The lookup reads the next row that passes the type filter and hands it to
\* _process_row.
ProcessRow ==
    /\ relPc = "load"
    /\ Len(relRows) < MaxRows
    /\ \E dbrow \in RelDbRows(relInput.relation_type) :
         LET r == _process_row(relTable, cursor_row(dbrow, relFields)) IN
           /\ relTable' = r.table
           /\ relWarnings' = relWarnings \o r.warnings
           /\ relLast' = r.outcome
           /\ relRows' = Append(relRows, dbrow)
    /\ UNCHANGED <<relInput, relPc, relErr, relPath, relFilter, relFields>>

\* The cursor is exhausted and the constructor returns.
FinishLoad ==
    /\ relPc = "load"
    /\ relPc' = "done"
    /\ UNCHANGED <<relInput, relErr, relPath, relFilter, relFields, relTable,
                   relRows, relWarnings, relLast>>

\* Reading the table fails: the lookup's RuntimeError is raised again with
\* the table path in its message.
LoadError ==
    /\ relPc = "load"
    /\ relPc' = "failed"
    /\ relErr' = "RuntimeError"
    /\ UNCHANGED <<relInput, relPath, relFilter, relFields, relTable, relRows,
                   relWarnings, relLast>>

(***************************************************************************)
(* Specification of the definition table and its facades                   *)
(***************************************************************************)
InitDef == DefInit /\ LangIdle /\ RecIdle /\ RelIdle

NextDef ==
    \/ DefinitionTable_init /\ UNCHANGED <<langVars, recVars, relVars>>
    \/ Get /\ UNCHANGED <<langVars, recVars, relVars>>
    \/ ReadTables /\ UNCHANGED <<langVars, recVars, relVars>>
    \/ ReadFields /\ UNCHANGED <<langVars, recVars, relVars>>

SpecDef == InitDef /\ [][NextDef]_vars

(***************************************************************************)
(* Specification of the memoized language                                  *)
(***************************************************************************)
InitLang == DefIdle /\ LangInit /\ RecIdle /\ RelIdle

NextLang ==
    \/ description /\ UNCHANGED <<defVars, recVars, relVars>>
    \/ SetLanguage /\ UNCHANGED <<defVars, recVars, relVars>>

SpecLang == InitLang /\ [][NextLang]_vars

(***************************************************************************)
(* Specification of the Relation record                                    *)
(***************************************************************************)
InitRec == DefIdle /\ LangIdle /\ RecInit /\ RelIdle

NextRec ==
    \/ NewRelation /\ UNCHANGED <<defVars, langVars, relVars>>
    \/ BoolRelation /\ UNCHANGED <<defVars, langVars, relVars>>

SpecRec == InitRec /\ [][NextRec]_vars

(***************************************************************************)
(* Specification of the RelationTable constructor and its load             *)
(***************************************************************************)
InitRel == DefIdle /\ LangIdle /\ RecIdle /\ RelInit

NextRel ==
    \/ Validate /\ UNCHANGED <<defVars, langVars, recVars>>
    \/ MakePath /\ UNCHANGED <<defVars, langVars, recVars>>
    \/ MakeFilter /\ UNCHANGED <<defVars, langVars, recVars>>
    \/ SelectFields /\ UNCHANGED <<defVars, langVars, recVars>>
    \/ ProcessRow /\ UNCHANGED <<defVars, langVars, recVars>>
    \/ FinishLoad /\ UNCHANGED <<defVars, langVars, recVars>>
    \/ LoadError /\ UNCHANGED <<defVars, langVars, recVars>>

SpecRel == InitRel /\ [][NextRel]_vars

(***************************************************************************)
(* Properties of the definition table and its facades                      *)
(***************************************************************************)
\* C1: on a constructed DefinitionTable, get(k, d) returns the value stored
\* for k when k is a key of the table and exactly d when it is not, and the
\* mapping is still the one that was loaded.
C1_GetOverrideElseDefault ==
    /\ defPc = "ready" => defTable = defInput.content
    /\ defCall.op = "get" =>
          /\ defCall.key \in DOMAIN defTable => defResult = defTable[defCall.key]
          /\ defCall.key \notin DOMAIN defTable => defResult = defCall.default

\* C1 witness: both cases of get have been answered: a stored key whose value
\* differs from the default given, and (in another state) a missing key.
C1_Witness ==
    /\ defCall.op = "get"
    /\ defCall.key \in DOMAIN defTable
    /\ defTable[defCall.key] # defCall.default
    /\ defResult = defTable[defCall.key]
    /\ \E k \in GetKeys : k \notin DOMAIN defTable

\* C2: a constructor that reads a definition table with zero rows raises
\* ValueError and returns no instance; every instance returned holds at
\* least one entry.
C2_EmptyTableRejected ==
    /\ defPc = "ready" => DOMAIN defTable # {}
    /\ (defPc \notin {"new", "idle"} /\ defInput.readable /\ DOMAIN defInput.content = {})
          => (defPc = "failed" /\ defErr = "ValueError")

\* C2 witness: EleDefinitions over a valid workspace and a readable, empty
\* table has failed.
C2_Witness ==
    /\ defPc = "failed"
    /\ defErr = "ValueError"
    /\ defInput.cls = "EleDefinitions"
    /\ defInput.workspace = "Workspace"
    /\ defInput.readable
    /\ DOMAIN defInput.content = {}

\* C9: fields.name_number is "name_nummer" when the resolved voltage-table
\* name (override of 'tablename_sec_cable_dense', else "eles_spannung") is
\* "eles_spannung" and "name_number" otherwise, whatever else the table holds.
C9_NameNumberFollowsVoltageTable ==
    (defCall.op = "fields" /\ defCall.key = "name_number") =>
        LET resolved == IF "tablename_sec_cable_dense" \in DOMAIN defTable
                        THEN defTable["tablename_sec_cable_dense"]
                        ELSE "eles_spannung"
        IN  defResult = IF resolved = "eles_spannung" THEN "name_nummer" ELSE "name_number"

\* C9 witness: name_number has been read over a table that overrides the
\* voltage table with the sentinel name itself, next to other entries.
C9_Witness ==
    /\ defCall.op = "fields" /\ defCall.key = "name_number"
    /\ "tablename_sec_cable_dense" \in DOMAIN defTable
    /\ defTable["tablename_sec_cable_dense"] = "eles_spannung"
    /\ "fieldname_ds_trafo_name_number" \in DOMAIN defTable
    /\ defResult = "name_nummer"

\* C10: tables.cable is the override stored under 'tablename_cable', else
\* "ele_kabel"; tables.clamp is the override stored under 'tablename_clamp',
\* else "ele_ds_klemme"; neither depends on the other property's key.
C10_CableClampIndependent ==
    /\ (defCall.op = "tables" /\ defCall.key = "cable") =>
          defResult = IF "tablename_cable" \in DOMAIN defTable
                      THEN defTable["tablename_cable"] ELSE "ele_kabel"
    /\ (defCall.op = "tables" /\ defCall.key = "clamp") =>
          defResult = IF "tablename_clamp" \in DOMAIN defTable
                      THEN defTable["tablename_clamp"] ELSE "ele_ds_klemme"

\* C10 witness: the table is exactly [tablename_cable -> custom_kabel] and
\* tables.clamp has answered its default.
C10_Witness ==
    /\ defCall.op = "tables" /\ defCall.key = "clamp"
    /\ DOMAIN defTable = {"tablename_cable"}
    /\ defTable["tablename_cable"] = "custom_kabel"
    /\ defResult = "ele_ds_klemme"

C6_Original ==
    recBool \in {"True", "False"} =>
        (recBool = "False" <=> \A i \in 1..RelationFields : rec[i] = None)

\* C6 as amended: a Relation has 7 fields, and bool(r) is false exactly when
\* every field is None or the empty string; a single field that is neither
\* makes it true.
C6_FalseIffAllFieldsEmpty ==
    recBool \in {"True", "False"} =>
        /\ DOMAIN rec = 1..RelationFields
        /\ recBool = "False" <=> \A i \in 1..RelationFields : rec[i] \in {None, <<>>}

\* C6 witness: a record whose only field that is not None is an empty string
\* has evaluated as false.
C6_Witness ==
    /\ recBool = "False"
    /\ \E i \in 1..RelationFields :
          /\ rec[i] = <<>>
          /\ \A j \in 1..RelationFields \ {i} : rec[j] = None

(***************************************************************************)
(* Properties of the RelationTable                                         *)
(***************************************************************************)
\* C3: a row whose key is already a key of the table leaves the table as it
\* is, raises one RelationWarning and leaves the load running without an
\* exception; so each key of the table maps to the record of the first row
\* read that carried it, and there is one warning per later row with a key
\* read before.
C3_DuplicateKeyKeepsFirst ==
    [][LET key(rows, i) == format(rows[i][relFields'[1]])
           record(rows, i) ==
               [n \in 1..RelationFields |-> format(rows[i][relFields'[n + 1]])]
           repeats(rows) ==
               {i \in 1..Len(rows) :
                   Truthy(key(rows, i)) /\ \E j \in 1..(i - 1) : key(rows, j) = key(rows, i)}
           FirstWins(rows, table, warnings) ==
               /\ \A k \in DOMAIN table :
                     \E i \in 1..Len(rows) :
                        /\ key(rows, i) = k
                        /\ \A j \in 1..(i - 1) : key(rows, j) # k
                        /\ table[k] = record(rows, i)
               /\ Len(warnings) = Cardinality(repeats(rows))
       IN  /\ FirstWins(relRows', relTable', relWarnings')
           /\ (Len(relRows') = Len(relRows) + 1
                  /\ key(relRows', Len(relRows')) \in DOMAIN relTable)
               => /\ relTable' = relTable
                  /\ Len(relWarnings') = Len(relWarnings) + 1
                  /\ relLast' = "duplicate"
                  /\ relPc' = "load"
                  /\ relErr' = "none"]_vars

\* C3 witness: a second row with the key of the first but another record has
\* been read; the first record is kept and a warning was raised.
C3_Witness ==
    /\ relLast = "duplicate"
    /\ Len(relRows) = 2
    /\ relRows[1].table_dst # relRows[2].table_dst
    /\ relRows[1].table_src # relRows[2].table_src
    /\ ~relInput.reverse
    /\ DOMAIN relTable = {<<"A">>}
    /\ target_table(relTable[<<"A">>]) = format(relRows[1].table_dst)
    /\ Len(relWarnings) = 1
    /\ relPc = "load"

\* C4: a row that is inserted is stored, with reverse=False, under its source
\* table with the record (destination table, relation table, source key
\* field, destination key field, relation source field, relation destination
\* field, type) and, with reverse=True, under its destination table with the
\* record (source table, relation table, destination key field, source key
\* field, relation destination field, relation source field, type), each
\* value in its stored (uppercased, trimmed) form.
C4_ReverseSwapsRoles ==
    relLast = "inserted" =>
        LET row == relRows[Len(relRows)] IN
        IF relInput.reverse
        THEN /\ format(row.table_dst) \in DOMAIN relTable
             /\ relTable[format(row.table_dst)] =
                   <<format(row.table_src), format(row.table_rel),
                     format(row.keyfield_dst), format(row.keyfield_src),
                     format(row.relfield_dst), format(row.relfield_src),
                     format(relInput.relation_type)>>
        ELSE /\ format(row.table_src) \in DOMAIN relTable
             /\ relTable[format(row.table_src)] =
                   <<format(row.table_dst), format(row.table_rel),
                     format(row.keyfield_src), format(row.keyfield_dst),
                     format(row.relfield_src), format(row.relfield_dst),
                     format(relInput.relation_type)>>

\* C4 witness: with reverse=True the row (src=A, dst=B, rel=R, srcKey=X,
\* dstKey=Y, relSrc=P, relDst=Q) has been stored under B.
C4_Witness ==
    /\ relInput.reverse
    /\ relInput.relation_type = GNRELTYPE_RELATE
    /\ relLast = "inserted"
    /\ relRows[Len(relRows)].table_src = <<"A">>
    /\ <<"B">> \in DOMAIN relTable
    /\ relTable[<<"B">>] = <<<<"A">>, <<"R">>, <<"Y">>, <<"X">>, <<"Q">>, <<"P">>,
                            <<"R","E","L","A","T","E">>>>

\* C7: with a relation_type that is none of the 8 codes, the constructor
\* fails with ValueError before a table path or a filter is built or a row
\* is read; with each of the 8 codes (and a Workspace) it raises no
\* ValueError.
C7_UnknownTypeFailsBeforeIO ==
    LET codes == {GNRELTYPE_AGGREGRATE, GNRELTYPE_COMPOSITE, GNRELTYPE_DATALINK,
                  GNRELTYPE_ENTITY, GNRELTYPE_LABEL, GNRELTYPE_PLAN,
                  GNRELTYPE_RELATE, GNRELTYPE_SHAPEGROUP}
    IN  /\ (relInput.relation_type \notin codes /\ relPc \notin {"new", "idle"}) =>
              /\ relPc = "failed"
              /\ relErr = "ValueError"
              /\ ~relPath
              /\ ~relFilter
              /\ relFields = <<>>
              /\ relRows = <<>>
              /\ DOMAIN relTable = {}
        /\ (relInput.relation_type \in codes /\ relInput.workspace = "Workspace") =>
              /\ relErr # "ValueError"
              /\ relPc # "new" => relPc \in {"validated", "path", "filter", "load",
                                              "done", "failed"}
              /\ relPc = "failed" => relErr = "RuntimeError"

\* C7 witness: the constructor has failed on a valid workspace and the type
\* 'RELATE', which differs from the code 'relate' in case only.
C7_Witness ==
    /\ relPc = "failed"
    /\ relErr = "ValueError"
    /\ relInput.workspace = "Workspace"
    /\ relInput.relation_type = <<"R","E","L","A","T","E">>
    /\ ~relPath /\ ~relFilter /\ relRows = <<>>

\* C8: a row whose key column is null or holds nothing but whitespace adds no
\* entry and leaves the table as it is: the keys of the table are the
\* uppercased, trimmed key columns of the other rows read, none of them None
\* or the empty string.
C8_EmptyKeySkipped ==
    LET keycol(i) == IF relInput.reverse THEN relRows[i].table_dst
                     ELSE relRows[i].table_src
        blank(v) == v = None \/ \A n \in DOMAIN v : v[n] \in Whitespace
        n == Len(relRows)
    IN  /\ None \notin DOMAIN relTable
        /\ <<>> \notin DOMAIN relTable
        /\ DOMAIN relTable = {format(keycol(i)) : i \in {j \in 1..n : ~blank(keycol(j))}}
        /\ (n > 0 /\ blank(keycol(n))) => relLast = "skipped"

\* C8 witness: after a row that was inserted, a row whose key column holds
\* whitespace only has been skipped.
C8_Witness ==
    /\ relLast = "skipped"
    /\ Len(relRows) = 2
    /\ LET k == IF relInput.reverse THEN relRows[2].table_dst ELSE relRows[2].table_src
       IN  k # None /\ k # <<>>
    /\ Cardinality(DOMAIN relTable) = 1

(***************************************************************************)
(* Properties of the description field name                                *)
(***************************************************************************)
\* C11: whatever language code is stored, a read of fields.description
\* returns the custom, German, English, French or Italian field name when the
\* stored code is that language, and the German field name for every other
\* code, an unmapped code and a language not yet determined (None, '')
\* included.
C11_DescriptionOneOfFive ==
    descReads >= 1 =>
        /\ descResult \in {GNFIELD_DESC_CUSTOM, GNFIELD_DESC_DE, GNFIELD_DESC_EN,
                           GNFIELD_DESC_FR, GNFIELD_DESC_IT}
        /\ _gn_lang = GN_LANG_CUSTOM => descResult = GNFIELD_DESC_CUSTOM
        /\ _gn_lang = GN_LANG_DE => descResult = GNFIELD_DESC_DE
        /\ _gn_lang = GN_LANG_EN => descResult = GNFIELD_DESC_EN
        /\ _gn_lang = GN_LANG_FR => descResult = GNFIELD_DESC_FR
        /\ _gn_lang = GN_LANG_IT => descResult = GNFIELD_DESC_IT
        /\ _gn_lang \notin {GN_LANG_CUSTOM, GN_LANG_DE, GN_LANG_EN, GN_LANG_FR,
                             GN_LANG_IT} => descResult = GNFIELD_DESC_DE

\* C11 witness: a read that found no language determined (the provider
\* answered None) has returned the German field name.
C11_Witness ==
    /\ descReads >= 1
    /\ langCalls >= 1
    /\ _gn_lang = NoLang
    /\ descResult = GNFIELD_DESC_DE

(***************************************************************************)
(* Properties of the normalisation of rows                                 *)
(***************************************************************************)
\* C12: the key of every row inserted is the uppercased, trimmed form of the
\* row's first column and the 7 fields of its record are the uppercased,
\* trimmed forms of the row's next 7 columns, in their order, None staying
\* None; a row is skipped when that form of its key is None or empty and is
\* a duplicate when that form equals the one of an earlier row, so keys that
\* differ in letter case or surrounding whitespace only are the same key.
C12_RowsStoredNormalized ==
    LET Up(c) == IF \E n \in 1..26 : LowerCase[n] = c
                 THEN UpperCase[CHOOSE n \in 1..26 : LowerCase[n] = c]
                 ELSE c
        Norm(v) ==
            IF v = None THEN None
            ELSE LET solid == {i \in 1..Len(v) : v[i] \notin Whitespace} IN
                 IF solid = {} THEN <<>>
                 ELSE LET lo == CHOOSE i \in solid : \A j \in solid : i <= j
                          hi == CHOOSE i \in solid : \A j \in solid : i >= j
                      IN  [i \in 1..(hi - lo + 1) |-> Up(v[lo + i - 1])]
        column(i, n) == relRows[i][relFields[n]]
        key(i) == Norm(column(i, 1))
        last == Len(relRows)
        inserted == {i \in 1..last :
                        /\ key(i) \notin {None, <<>>}
                        /\ \A j \in 1..(i - 1) : key(j) # key(i)}
    IN  /\ DOMAIN relTable = {key(i) : i \in inserted}
        /\ \A i \in inserted :
              relTable[key(i)] = [n \in 1..RelationFields |-> Norm(column(i, n + 1))]
        /\ last > 0 =>
              relLast = IF last \in inserted THEN "inserted"
                        ELSE IF key(last) \in {None, <<>>} THEN "skipped"
                        ELSE "duplicate"

\* C12 witness: the row with key ' a' was stored under 'A' with its null
\* fields kept null and its text fields uppercased and trimmed, and the
\* later row with key 'A' was taken for a duplicate of it.
C12_Witness ==
    /\ ~relInput.reverse
    /\ relInput.relation_type = GNRELTYPE_PLAN
    /\ Len(relRows) = 2
    /\ relRows[1].table_src = <<" ","a">>
    /\ relRows[1].keyfield_src = <<"x"," ">>
    /\ relRows[2].table_src = <<"A">>
    /\ relLast = "duplicate"
    /\ DOMAIN relTable = {<<"A">>}
    /\ relTable[<<"A">>] = <<<<"B">>, None, <<"X">>, <<"Y">>, None, None,
                            <<"P","L","A","N">>>>

=============================================================================
